---- MODULE Spec2Model ----
(***************************************************************************)
(* Model of src/app.py: the construction-loan schedule script.  The script *)
(* reads the sidebar inputs, builds the schedule rows in a loop, and then  *)
(* writes the "Schedule" worksheet (summary block, header, one row of      *)
(* literal and formula cells per period, and a Total Interest formula).    *)
(*                                                                         *)
(* Numbers: Python's int/float arithmetic is modelled as exact rational    *)
(* arithmetic; a number is a pair <<n, d>> in lowest terms with d > 0.     *)
(* Dates are triples <<year, month, day>>.                                 *)
(***************************************************************************)
EXTENDS Integers, Sequences, FiniteSets, TLC

\* ------------------------------------------------------------------ bounds
MaxTerm == 3

\* ------------------------------------------------------- input value sets
Principals == {0 - 1000, 1000, 100000}
RatePcts == {12, 100}
DrawBases == {<<2024, 2, 15>>, <<2023, 1, 31>>, <<2023, 11, 15>>}
PaydownBases == {<<2023, 1, 1>>, <<2024, 4, 30>>}
DrawAmounts == {0, 200}
SettlementCounts == {1, 3}
SettlementAmounts == {0, 500}
CustomPaydownEntries == {<<0, 0>>, <<2, 250>>}

\* the months of a custom per-month list that hold a non-zero entry
CustomPatterns == {"first", "even", "all"}

InPattern(p, k) ==
    CASE p = "first" -> k = 1
      [] p = "even" -> k % 2 = 0
      [] p = "all" -> TRUE

Capitalize == "Capitalize interest into loan"
PayCash == "Pay interest out of cash"
FixedDraw == "Fixed amount"
FixedPaydown == "Fixed paydown amount"
CustomPerMonth == "Custom per month"
None == "None"

\* -------------------------------------------------- rational arithmetic
Abs(x) == IF x < 0 THEN 0 - x ELSE x

RECURSIVE GCD(_, _)
GCD(a, b) == IF b = 0 THEN a ELSE GCD(b, a % b)

Rat(n, d) ==
    LET g == GCD(Abs(n), d)
    IN  IF n = 0 THEN <<0, 1>> ELSE <<n \div g, d \div g>>

Num(k) == <<k, 1>>

Add(a, b) ==
    LET g == GCD(a[2], b[2])
        L == (a[2] \div g) * b[2]
    IN  Rat(a[1] * (L \div a[2]) + b[1] * (L \div b[2]), L)

Neg(a) == <<0 - a[1], a[2]>>

Sub(a, b) == Add(a, Neg(b))

Mul(a, b) ==
    LET g1 == IF a[1] = 0 THEN 1 ELSE GCD(Abs(a[1]), b[2])
        g2 == IF b[1] = 0 THEN 1 ELSE GCD(Abs(b[1]), a[2])
    IN  Rat((a[1] \div g1) * (b[1] \div g2), (a[2] \div g2) * (b[2] \div g1))

Div(a, k) == Mul(a, <<1, k>>)

\* ------------------------------------------------------ calendar (pandas)
IsLeap(y) == (y % 4 = 0 /\ y % 100 # 0) \/ y % 400 = 0

DaysInMonth(y, m) ==
    IF m = 2 THEN (IF IsLeap(y) THEN 29 ELSE 28)
    ELSE IF m \in {4, 6, 9, 11} THEN 30 ELSE 31

\* month-end of the month k months away from ts's month
ShiftMonthEnd(ts, k) ==
    LET total == ts[1] * 12 + (ts[2] - 1) + k
        y == total \div 12
        m == (total % 12) + 1
    IN  <<y, m, DaysInMonth(y, m)>>

\* ts + MonthEnd(n): a date that is not on a month end first rolls forward
MonthEnd(ts, n) ==
    LET k == IF n > 0 /\ ts[3] < DaysInMonth(ts[1], ts[2]) THEN n - 1 ELSE n
    IN  ShiftMonthEnd(ts, k)

DateLT(a, b) ==
    \/ a[1] < b[1]
    \/ a[1] = b[1] /\ a[2] < b[2]
    \/ a[1] = b[1] /\ a[2] = b[2] /\ a[3] < b[3]

\* ------------------------------------------------------------------ state
VARIABLES principal, annual_rate_pct, term_months, draw_base, paydown_base,
          interest_mode, draw_mode, monthly_draw, custom_draws,
          paydown_mode, paydowns_per_month, paydown_amount, custom_paydowns,
          rows, balance, ws, idx, pc

inputs == <<principal, annual_rate_pct, term_months, draw_base, paydown_base,
            interest_mode, draw_mode, monthly_draw, custom_draws,
            paydown_mode, paydowns_per_month, paydown_amount, custom_paydowns>>

vars == <<inputs, rows, balance, ws, idx, pc>>

annual_rate == Rat(annual_rate_pct, 100)
\* variant: the input date is used as it is, without the month-end anchor
start_date_Unanchored == draw_base

start_date == MonthEnd(draw_base, 0)
paydown_start == MonthEnd(paydown_base, 0)
\* variant: the annual rate is applied every month
monthly_rate_Annual == annual_rate

monthly_rate == Div(annual_rate, 12)
n_payments == term_months

\* loop index of the schedule build loop: one row has been appended per pass
i == Len(rows)

\* ------------------------------------------------- schedule build helpers
DateOf(period) == MonthEnd(start_date, period)

InterestOf(bal) == Mul(bal, monthly_rate)

DrawAmt(k) ==
    IF draw_mode = FixedDraw THEN Num(monthly_draw) ELSE Num(custom_draws[k + 1])

\* variant: interest is added to the draw in both interest modes
TotalDraw_AlwaysCapitalized(draw_amt, interest) == Add(draw_amt, interest)

TotalDraw(draw_amt, interest) ==
    IF interest_mode = Capitalize THEN Add(draw_amt, interest) ELSE draw_amt

\* variant: the paydown start date is ignored
PaydownOf_Ungated(date_dt, k) ==
    IF paydown_mode = FixedPaydown
    THEN Num(paydowns_per_month * paydown_amount)
    ELSE Num(custom_paydowns[k + 1])

PaydownOf(date_dt, k) ==
    IF DateLT(date_dt, paydown_start)
    THEN Num(0)
    ELSE IF paydown_mode = FixedPaydown
         THEN Num(paydowns_per_month * paydown_amount)
         ELSE Num(custom_paydowns[k + 1])

\* variant: the paydown is not subtracted
EndBal_NoPaydown(bal, total_draw, paydown) == Add(bal, total_draw)

EndBal(bal, total_draw, paydown) == Sub(Add(bal, total_draw), paydown)

\* variant: the running balance is not carried forward
NextBalance_Stale(bal, end_bal) == bal

NextBalance(bal, end_bal) == end_bal

\* ------------------------------------------------------ worksheet helpers
header_row == 7

headers == <<"Period", "Date", "Beg Balance", "Const. Draw",
             "Interest Draw", "Total Draw", "Paydown", "End Balance">>

ColLetters == <<"A", "B", "C", "D", "E", "F", "G", "H">>

ColIdx(letter) == (CHOOSE c \in 1..Len(ColLetters) : ColLetters[c] = letter) - 1

Cell(t, v) == [t |-> t, v |-> v]

Formula(op, args) == Cell("formula", [op |-> op, args |-> args])

\* a block of ws.write*(row, col, ...) calls to distinct cells: a write to a
\* cell that already holds a value replaces it
WriteAll(w, at, cells) ==
    [x \in (DOMAIN w) \cup at |-> IF x \in at THEN cells[x] ELSE w[x]]

EmptySheet == [x \in {} |-> Cell("blank", 0)]

\* ----------------------------------------------------------------- Init
Init ==
    /\ principal \in Principals
    /\ annual_rate_pct \in RatePcts
    /\ term_months \in 1..MaxTerm
    /\ draw_base \in DrawBases
    /\ paydown_base \in PaydownBases
    /\ interest_mode \in {Capitalize, PayCash}
    /\ draw_mode \in {FixedDraw, CustomPerMonth}
    /\ IF draw_mode = FixedDraw
       THEN /\ monthly_draw \in DrawAmounts
            /\ custom_draws = None
       ELSE /\ \E p \in CustomPatterns, d \in DrawAmounts :
                  custom_draws = [k \in 1..term_months |->
                                     IF InPattern(p, k) THEN d ELSE 0]
            /\ monthly_draw = None
    /\ paydown_mode \in {FixedPaydown, CustomPerMonth}
    /\ IF paydown_mode = FixedPaydown
       THEN /\ paydowns_per_month \in SettlementCounts
            /\ paydown_amount \in SettlementAmounts
            /\ custom_paydowns = None
       ELSE /\ paydowns_per_month = 0
            /\ paydown_amount = 0
            /\ \E p \in CustomPatterns, e \in CustomPaydownEntries :
                  custom_paydowns = [k \in 1..term_months |->
                                        IF InPattern(p, k) THEN e[1] * e[2] ELSE 0 * 0]
    /\ rows = <<>>
    /\ balance = Num(principal)
    /\ ws = EmptySheet
    /\ idx = 0
    /\ pc = "build"

\* ------------------------------------------------- one pass of the loop
BuildRow ==
    /\ pc = "build"
    /\ i < n_payments
    /\ LET period == i + 1
           date_dt == DateOf(period)
           interest == InterestOf(balance)
           draw_amt == DrawAmt(i)
           total_draw == TotalDraw(draw_amt, interest)
           paydown == PaydownOf(date_dt, i)
           end_bal == EndBal(balance, total_draw, paydown)
       IN  /\ rows' = Append(rows, [Period |-> period,
                                    Date |-> date_dt,
                                    BegBalance |-> balance,
                                    ConstDraw |-> draw_amt,
                                    InterestDraw |-> interest,
                                    TotalDraw |-> total_draw,
                                    Paydown |-> paydown,
                                    EndBalance |-> end_bal])
           /\ balance' = NextBalance(balance, end_bal)
    /\ pc' = IF i + 1 = n_payments THEN "summary" ELSE "build"
    /\ UNCHANGED <<inputs, ws, idx>>

\* ------------------------------------------ summary section (rows 0-6)
SummaryCells ==
    <<<<Cell("string", "Annual Rate"), Cell("number", annual_rate)>>,
      <<Cell("string", "Monthly Rate (=B1/12)"), Formula("div12", <<<<"B", 1>>>>)>>,
      <<Cell("string", "Term (months)"), Cell("number", Num(term_months))>>,
      <<Cell("string", "Interest treatment"), Cell("string", interest_mode)>>,
      <<Cell("string", "Settlements/month"), Cell("number", Num(paydowns_per_month))>>,
      <<Cell("string", "Amount/settlement"), Cell("number", Num(paydown_amount))>>>>

WriteSummary ==
    /\ pc = "summary"
    /\ ws' = WriteAll(ws, {<<r, c>> : r \in 0..5, c \in 0..1},
                      [x \in {<<r, c>> : r \in 0..5, c \in 0..1} |->
                          SummaryCells[x[1] + 1][x[2] + 1]])
    /\ pc' = "header"
    /\ UNCHANGED <<inputs, rows, balance, idx>>

\* ------------------------------------------------------ header row at 7
WriteHeader ==
    /\ pc = "header"
    /\ ws' = WriteAll(ws, {<<header_row, c>> : c \in 0..(Len(headers) - 1)},
                      [x \in {<<header_row, c>> : c \in 0..(Len(headers) - 1)} |->
                          Cell("string", headers[x[2] + 1])])
    /\ pc' = "data"
    /\ UNCHANGED <<inputs, rows, balance, idx>>

\* ----------------------------------------------------------- data rows
BegBalanceCell(k, excel_row) ==
    IF k = 0
    THEN Cell("number", Num(principal))
    ELSE Formula("ref", <<<<"H", excel_row - 1>>>>)

InterestCell(excel_row) == Formula("mul", <<<<"C", excel_row>>, <<"B", 2>>>>)

TotalDrawCell(excel_row) ==
    IF interest_mode = Capitalize
    THEN Formula("add", <<<<"D", excel_row>>, <<"E", excel_row>>>>)
    ELSE Formula("ref", <<<<"D", excel_row>>>>)

PaydownCell(r) ==
    IF paydown_mode = FixedPaydown
    THEN Formula("mul", <<<<"B", 5>>, <<"B", 6>>>>)
    ELSE Cell("number", r.Paydown)

EndBalanceCell(excel_row) ==
    Formula("addsub", <<<<"C", excel_row>>, <<"F", excel_row>>, <<"G", excel_row>>>>)

WriteDataRow ==
    /\ pc = "data"
    /\ idx < Len(rows)
    /\ LET r == rows[idx + 1]
           row_idx == header_row + 1 + idx
           excel_row == row_idx + 1
           cells == <<Cell("number", Num(r.Period)),
                      Cell("datetime", r.Date),
                      BegBalanceCell(idx, excel_row),
                      Cell("number", r.ConstDraw),
                      InterestCell(excel_row),
                      TotalDrawCell(excel_row),
                      PaydownCell(r),
                      EndBalanceCell(excel_row)>>
       IN  ws' = WriteAll(ws, {<<row_idx, c>> : c \in 0..7},
                          [x \in {<<row_idx, c>> : c \in 0..7} |-> cells[x[2] + 1]])
    /\ idx' = idx + 1
    /\ pc' = IF idx + 1 = Len(rows) THEN "total" ELSE "data"
    /\ UNCHANGED <<inputs, rows, balance>>

\* ------------------------------------------ total interest sum below data
sum_row == header_row + 1 + n_payments
\* variant: the summed range starts at the header row
start_data_Header == header_row + 1

start_data == header_row + 2
end_data == header_row + 1 + n_payments

WriteTotal ==
    /\ pc = "total"
    /\ ws' = WriteAll(ws, {<<sum_row, 3>>, <<sum_row, 4>>},
                      [x \in {<<sum_row, 3>>, <<sum_row, 4>>} |->
                          IF x[2] = 3
                          THEN Cell("string", "Total Interest:")
                          ELSE Formula("sum", <<<<"E", start_data>>, <<"E", end_data>>>>)])
    /\ pc' = "done"
    /\ UNCHANGED <<inputs, rows, balance, idx>>

Next ==
    \/ BuildRow
    \/ WriteSummary
    \/ WriteHeader
    \/ WriteDataRow
    \/ WriteTotal

Spec == Init /\ [][Next]_vars

\* ------------------------------------------- spreadsheet recalculation
\* The value a spreadsheet engine computes for a cell: an empty cell counts
\* as 0, text in arithmetic is an error (denominator 0), SUM skips text.
Err == <<0, 0>>

IsErr(a) == a[2] = 0

RECURSIVE EvalCell(_, _)
RECURSIVE SumRange(_, _, _, _)

EAdd(a, b) == IF IsErr(a) \/ IsErr(b) THEN Err ELSE Add(a, b)

ESub(a, b) == IF IsErr(a) \/ IsErr(b) THEN Err ELSE Sub(a, b)

EMul(a, b) == IF IsErr(a) \/ IsErr(b) THEN Err ELSE Mul(a, b)

EvalFormula(w, f) ==
    CASE f.op = "sum" -> SumRange(w, f.args[1][1], f.args[1][2], f.args[2][2])
      [] f.op = "ref" -> EvalCell(w, f.args[1])
      [] f.op = "div12" -> EMul(EvalCell(w, f.args[1]), <<1, 12>>)
      [] f.op = "mul" -> EMul(EvalCell(w, f.args[1]), EvalCell(w, f.args[2]))
      [] f.op = "add" -> EAdd(EvalCell(w, f.args[1]), EvalCell(w, f.args[2]))
      [] f.op = "addsub" -> ESub(EAdd(EvalCell(w, f.args[1]), EvalCell(w, f.args[2])),
                                 EvalCell(w, f.args[3]))

EvalCell(w, ref) ==
    LET pos == <<ref[2] - 1, ColIdx(ref[1])>>
    IN  IF pos \notin DOMAIN w
        THEN Num(0)
        ELSE CASE w[pos].t = "number" -> w[pos].v
               [] w[pos].t = "formula" -> EvalFormula(w, w[pos].v)
               [] OTHER -> Err

SumRange(w, col, first, last) ==
    IF first > last
    THEN Num(0)
    ELSE LET pos == <<first - 1, ColIdx(col)>>
             rest == SumRange(w, col, first + 1, last)
         IN  IF pos \notin DOMAIN w \/ w[pos].t \notin {"number", "formula"}
             THEN rest
             ELSE EAdd(EvalCell(w, <<col, first>>), rest)

\* ===================================================== claims =========
MonthIndex(d) == d[1] * 12 + (d[2] - 1)

RECURSIVE SumField(_, _, _)
SumField(rs, k, field) ==
    IF k = 0 THEN Num(0) ELSE Add(SumField(rs, k - 1, field), rs[k][field])

\* C1: the schedule holds exactly term_months records for periods 1..N in
\* order once the build loop has ended (never fewer, whatever the balance
\* does), and every record satisfies
\* ending balance = beginning balance + total draw - paydown exactly.
C1_RecordsAndConservation ==
    /\ Len(rows) <= term_months
    /\ (pc # "build" => Len(rows) = term_months)
    /\ (Len(rows) < term_months => pc = "build")
    /\ \A k \in 1..Len(rows) :
          /\ rows[k].Period = k
          /\ rows[k].EndBalance =
                Sub(Add(rows[k].BegBalance, rows[k].TotalDraw), rows[k].Paydown)

C1_Witness ==
    /\ pc = "done"
    /\ term_months >= 2
    /\ Len(rows) = term_months
    /\ \E k \in 1..Len(rows) :
          rows[k].BegBalance[1] > 0 /\ rows[k].EndBalance[1] < 0
    /\ \E k \in 1..Len(rows) : rows[k].Period = term_months

\* C2: the first record begins at the principal, each record's ending
\* balance is the next record's beginning balance, and a record is never
\* changed once it has been appended.
C2_ChainInv ==
    /\ (Len(rows) >= 1 => rows[1].BegBalance = Num(principal))
    /\ \A k \in 1..(Len(rows) - 1) : rows[k].EndBalance = rows[k + 1].BegBalance

C2_AppendOnly ==
    /\ Len(rows') >= Len(rows)
    /\ \A k \in 1..Len(rows) : rows'[k] = rows[k]

C2_Chaining == [](C2_ChainInv) /\ [][C2_AppendOnly]_vars

C2_Witness ==
    /\ pc = "done"
    /\ Len(rows) >= 2
    /\ rows[1].EndBalance # rows[1].BegBalance
    /\ rows[2].EndBalance # rows[2].BegBalance

\* C3 (as claimed): once the workbook is written, recalculating the
\* Schedule sheet gives in every period row the same Beginning Balance,
\* Interest Draw, Total Draw, Paydown and Ending Balance as the record.
C3_FormulaValueEquivalence ==
    pc = "done" =>
        \A k \in 1..Len(rows) :
            LET er == header_row + 1 + k
            IN  /\ EvalCell(ws, <<"C", er>>) = rows[k].BegBalance
                /\ EvalCell(ws, <<"E", er>>) = rows[k].InterestDraw
                /\ EvalCell(ws, <<"F", er>>) = rows[k].TotalDraw
                /\ EvalCell(ws, <<"G", er>>) = rows[k].Paydown
                /\ EvalCell(ws, <<"H", er>>) = rows[k].EndBalance

\* C4: a record whose month lies before the month of the paydown start has
\* paydown 0, under the fixed and under the custom paydown policy.
C4_PaydownGating ==
    \A k \in 1..Len(rows) :
        MonthIndex(rows[k].Date) < MonthIndex(paydown_base)
            => rows[k].Paydown = Num(0)

C4_Witness ==
    /\ pc = "done"
    /\ paydown_mode = FixedPaydown
    /\ paydowns_per_month * paydown_amount > 0
    /\ Len(rows) >= 2
    /\ MonthIndex(rows[1].Date) < MonthIndex(paydown_base)
    /\ rows[1].Paydown = Num(0)
    /\ rows[2].Paydown # Num(0)

\* C5: record n is dated on the last day of the month n months after the
\* month of the input date; the dates increase strictly, one per
\* consecutive calendar month.
C5_CalendarInvariant ==
    /\ \A k \in 1..Len(rows) :
          /\ MonthIndex(rows[k].Date) = MonthIndex(draw_base) + k
          /\ rows[k].Date[2] \in 1..12
          /\ rows[k].Date[3] = DaysInMonth(rows[k].Date[1], rows[k].Date[2])
    /\ \A k \in 1..(Len(rows) - 1) :
          /\ DateLT(rows[k].Date, rows[k + 1].Date)
          /\ MonthIndex(rows[k + 1].Date) = MonthIndex(rows[k].Date) + 1

C5_Witness ==
    /\ pc = "done"
    /\ draw_base = <<2023, 11, 15>>
    /\ Len(rows) >= 3
    /\ rows[1].Date = <<2023, 12, 31>>
    /\ rows[2].Date = <<2024, 1, 31>>
    /\ rows[3].Date = <<2024, 2, 29>>

\* C6 (as claimed): for the input date 2024-02-15, period 1 is dated
\* 2024-02-29 (the month-end of the input date's own month) and period 2
\* is dated 2024-03-31.
C6_FirstPeriodInAnchorMonth ==
    (draw_base = <<2024, 2, 15>> /\ Len(rows) >= 2) =>
        /\ rows[1].Date = <<2024, 2, 29>>
        /\ rows[2].Date = <<2024, 3, 31>>

\* C7 (as claimed): with a negative principal no period record and no
\* workbook cell is ever produced.
C7_NegativePrincipalRejected ==
    principal < 0 => (rows = <<>> /\ ws = EmptySheet)

\* C8: total draw is draw + interest when interest is capitalized and the
\* draw alone when it is paid in cash; in the latter case every ending
\* balance is principal + draws so far - paydowns so far, whatever the
\* rate.  Principal 100,000, rate 12%, term 3, draw 0, fixed paydown
\* 1 x 500 from period 1, interest paid in cash: ending balances 99,500;
\* 99,000; 98,500.
C8_Scenario ==
    /\ principal = 100000
    /\ annual_rate_pct = 12
    /\ term_months = 3
    /\ interest_mode = PayCash
    /\ draw_mode = FixedDraw
    /\ monthly_draw = 0
    /\ paydown_mode = FixedPaydown
    /\ paydowns_per_month * paydown_amount = 500
    /\ ~DateLT(MonthEnd(MonthEnd(draw_base, 0), 1), MonthEnd(paydown_base, 0))

C8_InterestPolicy ==
    /\ \A k \in 1..Len(rows) :
          /\ interest_mode = Capitalize =>
                rows[k].TotalDraw = Add(rows[k].ConstDraw, rows[k].InterestDraw)
          /\ interest_mode = PayCash =>
                /\ rows[k].TotalDraw = rows[k].ConstDraw
                /\ rows[k].EndBalance =
                      Sub(Add(Num(principal), SumField(rows, k, "ConstDraw")),
                          SumField(rows, k, "Paydown"))
    /\ (C8_Scenario /\ Len(rows) = 3) =>
          /\ rows[1].EndBalance = Num(99500)
          /\ rows[2].EndBalance = Num(99000)
          /\ rows[3].EndBalance = Num(98500)

C8_Witness ==
    /\ pc = "done"
    /\ C8_Scenario
    /\ Len(rows) = 3
    /\ rows[1].InterestDraw = Num(1000)
    /\ rows[3].EndBalance = Num(98500)

\* C9: in both interest modes a record's interest is its beginning balance
\* times annual rate / 12.  Principal 100,000, rate 12%, term 3, no draws,
\* no paydowns, capitalized interest: beginning/interest/ending are
\* 100,000/1,000/101,000; 101,000/1,010/102,010; 102,010/1,020.10/103,030.10.
C9_Scenario ==
    /\ principal = 100000
    /\ annual_rate_pct = 12
    /\ term_months = 3
    /\ interest_mode = Capitalize
    /\ draw_mode = FixedDraw
    /\ monthly_draw = 0
    /\ paydown_mode = FixedPaydown
    /\ paydown_amount = 0

C9_InterestAccrual ==
    /\ \A k \in 1..Len(rows) :
          rows[k].InterestDraw = Mul(rows[k].BegBalance, Rat(annual_rate_pct, 1200))
    /\ (C9_Scenario /\ Len(rows) = 3) =>
          /\ rows[1].BegBalance = Num(100000)
          /\ rows[1].InterestDraw = Num(1000)
          /\ rows[1].EndBalance = Num(101000)
          /\ rows[2].BegBalance = Num(101000)
          /\ rows[2].InterestDraw = Num(1010)
          /\ rows[2].EndBalance = Num(102010)
          /\ rows[3].BegBalance = Num(102010)
          /\ rows[3].InterestDraw = <<10201, 10>>
          /\ rows[3].EndBalance = <<1030301, 10>>

C9_Witness ==
    /\ pc = "done"
    /\ C9_Scenario
    /\ Len(rows) = 3
    /\ rows[3].EndBalance = <<1030301, 10>>

\* C10: the Total Interest formula sums column E over exactly the rows of
\* the term_months period rows, and its own cell is in column E directly
\* below the last of them, outside the summed range.
DataRows == {r \in 0..(header_row + 2 + MaxTerm) :
                <<r, 0>> \in DOMAIN ws /\ ws[<<r, 0>>].t = "number"}

SumCells == {x \in DOMAIN ws : ws[x].t = "formula" /\ ws[x].v.op = "sum"}

C10_TotalInterestRange ==
    pc = "done" =>
        /\ Cardinality(DataRows) = term_months
        /\ Cardinality(SumCells) = 1
        /\ \A x \in SumCells :
              LET f == ws[x].v
                  first == f.args[1][2]
                  last == f.args[2][2]
              IN  /\ f.args[1][1] = "E"
                  /\ f.args[2][1] = "E"
                  /\ {r - 1 : r \in first..last} = DataRows
                  /\ \A r \in DataRows :
                        /\ <<r, 4>> \in DOMAIN ws
                        /\ ws[<<r, 4>>].t = "formula"
                        /\ ws[<<r, 4>>].v.op = "mul"
                        /\ r < x[1]
                  /\ x[2] = 4
                  /\ x[1] - 1 \in DataRows
                  /\ x[1] \notin {r - 1 : r \in first..last}
                  /\ EvalCell(ws, <<"E", x[1] + 1>>) =
                        SumRange(ws, "E", header_row + 2, header_row + 1 + term_months)

C10_Witness ==
    /\ pc = "done"
    /\ term_months >= 2
    /\ Cardinality(DataRows) = term_months
    /\ \E x \in SumCells : ~IsErr(EvalCell(ws, <<"E", x[1] + 1>>))
                           /\ EvalCell(ws, <<"E", x[1] + 1>>)[1] > 0

====
